---------------------------- MODULE Spec2Model ----------------------------
(***************************************************************************)
(* Model of src/src/index.ts: the showroom reservation worker              *)
(* (fetch handler routes /api/reserve, /api/cancel, /api/my, and the cron  *)
(* handler runReminders / sendBatch) over the D1 table `reservations`.     *)
(*                                                                         *)
(* Strings are sequences of one-character strings, so that trim(),         *)
(* digitsOnly(), the isYMD / isHM regular expressions, date parsing and    *)
(* date formatting are computed, not assumed.  An absent JSON field and    *)
(* the empty string behave alike in every handler (`body?.x || ""`,        *)
(* typeof/regex test), so both are the empty sequence.                     *)
(*                                                                         *)
(* A step is one statement on the store together with the handler code     *)
(* that leads up to it.  Every statement and every provider call may fail  *)
(* (at most MaxFaults times in a behaviour).  The uniqueness constraint of *)
(* the table is part of the schema, which is not in src/: it is taken from *)
(* the specification (UniqueViolation).                                    *)
(*                                                                         *)
(* Spec is the whole program from the empty table.  It is explored in      *)
(* three parts: SpecHttp (the HTTP routes alone, two reserves in flight),  *)
(* SpecCron (every action of Spec, from the state Spec is in after its     *)
(* first booking) and SpecBulk (the HTTP routes on the table of a customer *)
(* with more than MyLimit reservations).                                   *)
(***************************************************************************)
EXTENDS Integers, Sequences, FiniteSets, TLC

(* ------------------------------------------------------------------ *)
(* Characters and the string helpers of "Common utils"                *)
(* ------------------------------------------------------------------ *)

Digits == {"0", "1", "2", "3", "4", "5", "6", "7", "8", "9"}

IsDigit(c) == c \in Digits

DigitVal(c) ==
  CASE c = "0" -> 0 [] c = "1" -> 1 [] c = "2" -> 2 [] c = "3" -> 3
    [] c = "4" -> 4 [] c = "5" -> 5 [] c = "6" -> 6 [] c = "7" -> 7
    [] c = "8" -> 8 [] c = "9" -> 9

DigitChar(n) ==
  CASE n = 0 -> "0" [] n = 1 -> "1" [] n = 2 -> "2" [] n = 3 -> "3"
    [] n = 4 -> "4" [] n = 5 -> "5" [] n = 6 -> "6" [] n = 7 -> "7"
    [] n = 8 -> "8" [] n = 9 -> "9"

IsSpace(c) == c = " "

RECURSIVE TrimLeft(_)
TrimLeft(s) ==
  IF s # <<>> /\ IsSpace(Head(s)) THEN TrimLeft(Tail(s)) ELSE s

RECURSIVE TrimRight(_)
TrimRight(s) ==
  IF s # <<>> /\ IsSpace(s[Len(s)]) THEN TrimRight(SubSeq(s, 1, Len(s) - 1)) ELSE s

\* String(v || "").trim()
Trim(s) == TrimRight(TrimLeft(s))

\* String(s).replace(/\D/g, "")
digitsOnly(s) == SelectSeq(s, IsDigit)

\* /^\d{4}-\d{2}-\d{2}$/
isYMD(s) ==
  /\ Len(s) = 10
  /\ \A i \in {1, 2, 3, 4, 6, 7, 9, 10} : IsDigit(s[i])
  /\ s[5] = "-"
  /\ s[8] = "-"

\* /^\d{2}:\d{2}$/
isHM(s) ==
  /\ Len(s) = 5
  /\ \A i \in {1, 2, 4, 5} : IsDigit(s[i])
  /\ s[3] = ":"

(* ------------------------------------------------------------------ *)
(* Calendar arithmetic behind Date, Date.UTC and the getUTC* readers  *)
(* ------------------------------------------------------------------ *)

\* Days from 1970-01-01 to the civil date (y, m, d); d may exceed the
\* month's length, the excess running into the next month as MakeDay does.
DaysFromCivil(y, m, d) ==
  LET yy  == IF m <= 2 THEN y - 1 ELSE y
      era == yy \div 400
      yoe == yy - era * 400
      mp  == IF m > 2 THEN m - 3 ELSE m + 9
      doy == (153 * mp + 2) \div 5 + d - 1
      doe == yoe * 365 + yoe \div 4 - yoe \div 100 + doy
  IN  era * 146097 + doe - 719468

\* The civil date <<y, m, d>> of a day number.
CivilFromDays(z) ==
  LET zz  == z + 719468
      era == zz \div 146097
      doe == zz - era * 146097
      yoe == (doe - doe \div 1460 + doe \div 36524 - doe \div 146096) \div 365
      doy == doe - (365 * yoe + yoe \div 4 - yoe \div 100)
      mp  == (5 * doy + 2) \div 153
      d   == doy - (153 * mp + 2) \div 5 + 1
      m   == IF mp < 10 THEN mp + 3 ELSE mp - 9
      y   == yoe + era * 400 + (IF m <= 2 THEN 1 ELSE 0)
  IN  <<y, m, d>>

YearOf(s)  == 1000 * DigitVal(s[1]) + 100 * DigitVal(s[2]) + 10 * DigitVal(s[3]) + DigitVal(s[4])
MonthOf(s) == 10 * DigitVal(s[6]) + DigitVal(s[7])
DayOf(s)   == 10 * DigitVal(s[9]) + DigitVal(s[10])

\* getUTCDay() of an Invalid Date is NaN: it equals neither 0 nor 6.
NaN == -1

\* new Date(`${ymd}T00:00:00Z`) is a valid instant iff the month is 01..12
\* and the day 01..31 (the Workers runtime's ISO parser bounds the day by
\* 31 whatever the month; a day past the month's end rolls over).
ValidDate(ymd) == MonthOf(ymd) \in 1..12 /\ DayOf(ymd) \in 1..31

DayNumber(ymd) == DaysFromCivil(YearOf(ymd), MonthOf(ymd), 1) + DayOf(ymd) - 1

\* new Date(`${ymd}T00:00:00Z`).getUTCDay(): 0 = Sunday ... 6 = Saturday.
getUTCDay(ymd) ==
  IF ValidDate(ymd) THEN (DayNumber(ymd) + 4) % 7 ELSE NaN

\* String(n).padStart(2, "0") for 0 <= n <= 99
Pad2(n) == <<DigitChar(n \div 10), DigitChar(n % 10)>>

\* `${y}` for a year 1000..9999
Year4(y) ==
  <<DigitChar(y \div 1000), DigitChar((y \div 100) % 10),
    DigitChar((y \div 10) % 10), DigitChar(y % 10)>>

\* `${y}-${m}-${d}` of a day number
FormatYMD(z) ==
  LET c == CivilFromDays(z)
  IN  Year4(c[1]) \o <<"-">> \o Pad2(c[2]) \o <<"-">> \o Pad2(c[3])

(* ------------------------------------------------------------------ *)
(* Time rules                                                         *)
(* ------------------------------------------------------------------ *)

T1300 == <<"1", "3", ":", "0", "0">>
T1400 == <<"1", "4", ":", "0", "0">>
T1500 == <<"1", "5", ":", "0", "0">>
T1600 == <<"1", "6", ":", "0", "0">>

\* Mutation of allowedTimesForDate: every day has the slots of a weekday.
allowedTimesForDate_EveryDay(ymd) == <<T1300, T1500>>

\* Mutation of allowedTimesForDate: Saturday has the slots of a weekday.
allowedTimesForDate_SaturdayAsWeekday(ymd) ==
  IF getUTCDay(ymd) = 0 THEN <<>> ELSE <<T1300, T1500>>

\* Mon-Fri: 13:00, 15:00 / Sat: 14:00, 16:00 / Sun: none
allowedTimesForDate(ymd) ==
  LET dow == getUTCDay(ymd)
  IN  IF dow = 0 THEN <<>>
      ELSE IF dow = 6 THEN <<T1400, T1600>>
      ELSE <<T1300, T1500>>

\* Array.prototype.includes
Includes(seq, x) == \E i \in 1..Len(seq) : seq[i] = x


(* ------------------------------------------------------------------ *)
(* Bounds and the inputs the requests are drawn from                  *)
(* ------------------------------------------------------------------ *)

\* Concurrent /api/reserve invocations in flight.
NumReq == 2
\* Reserve requests that get as far as crypto.randomUUID().
MaxIds == 2
\* Times the wall clock moves on (by ClockStep hours each time).
MaxClock == 1
\* Scheduler ticks started.
MaxTicks == 2
\* Failures of the store (other than the uniqueness violation) and of the
\* two providers, all told.
MaxFaults == 2

\* The clock starts at 2025-03-13T03:00Z (12:00 in UTC+9) and moves in
\* half days, so that the UTC+9 date changes while the UTC date does not.
ClockStart == 20160 * 24 + 3
ClockStep  == 6 + 6

D_FRI   == <<"2", "0", "2", "5", "-", "0", "3", "-", "1", "4">>
D_SUN   == <<"2", "0", "2", "5", "-", "0", "3", "-", "1", "6">>
D_SHORT == <<"2", "0", "2", "5", "-", "3", "-", "1", "4">>

N_KIM     == <<"K", "i", "m">>
N_KIM_PAD == <<" ", "K", "i", "m", " ">>
N_LEE     == <<"L", "e", "e">>
N_ONE     == <<" ", "K", " ">>

P_KIM      == <<"0", "1", "0", "1", "2", "3", "4", "5", "6">>
P_KIM_DASH == <<"0", "1", "0", "-", "1", "2", "3", "-", "4", "5", "6">>
P_LEE      == <<"0", "1", "0", "9", "8", "7", "6", "5", "4">>
P_EIGHT    == <<"0", "1", "0", "-", "1", "2", "3", "4", "5">>

W_KIM   == <<"1", "2", "3", "4">>
W_LEE   == <<"a", "b", "c", "d">>
W_THREE == <<"1", "2", "3", " ">>

T_BAD == <<"9", ":", "0", "0">>

Body(d, t, n, p, w) ==
  [date |-> d, time |-> t, name |-> n, phone |-> p, password |-> w]

\* The JSON bodies of POST /api/reserve that are tried: three that pass
\* validation (two of them for the same slot), and one failing each check.
ReserveBodies ==
  { Body(D_FRI, T1300, N_KIM_PAD, P_KIM_DASH, W_KIM),
    Body(D_FRI, T1300, N_LEE, P_LEE, W_LEE),
    Body(D_FRI, T1500, N_LEE, P_LEE, W_LEE),
    Body(D_SHORT, T1300, N_KIM, P_KIM, W_KIM),
    Body(D_FRI, T_BAD, N_KIM, P_KIM, W_KIM),
    Body(D_FRI, T1300, N_ONE, P_KIM, W_KIM),
    Body(D_FRI, T1300, N_KIM, P_EIGHT, W_KIM),
    Body(D_FRI, T1300, N_KIM, P_KIM, W_THREE),
    Body(D_FRI, T1400, N_KIM, P_KIM, W_KIM),
    Body(D_SUN, T1300, N_KIM, P_KIM, W_KIM) }

(* ------------------------------------------------------------------ *)
(* Values of the table and of the responses                           *)
(* ------------------------------------------------------------------ *)

\* SQL NULL / an absent optional value; a present value v is <<v>>.
NULL == <<>>
Some(v) == <<v>>

\* crypto.randomUUID(): a string unlike every earlier one.
IdStr(n) == <<"u", DigitChar(n)>>

\* Error messages are sequences of words.
MSG_UNIQUE == <<"D1_ERROR:", "UNIQUE", "constraint", "failed:", "reservations.date,", "reservations.time">>
MSG_STORE  == <<"D1_ERROR:", "Network", "connection", "lost">>
MSG_ALIGO  == <<"ALIGO", "send", "fail:", "unknown">>
MSG_RESEND == <<"RESEND", "send", "failed", "HTTP", "500:">>

\* msg.toLowerCase(), word by word.
ToLowerWord(w) ==
  CASE w = "UNIQUE" -> "unique"
    [] w = "CONSTRAINT" -> "constraint"
    [] OTHER -> w

\* msg.toLowerCase().includes(word)
MsgIncludes(msg, word) == \E i \in 1..Len(msg) : ToLowerWord(msg[i]) = word

\* json(obj, cors, status): the response of /api/reserve
Json(status, error, id, detail) ==
  [status |-> status, error |-> error, id |-> id, detail |-> detail]

\* json(obj, cors, status): the response of /api/cancel and of /api/my
Reply(status, error, items, detail) ==
  [status |-> status, error |-> error, items |-> items, detail |-> detail]

(* ------------------------------------------------------------------ *)
(* State                                                              *)
(* ------------------------------------------------------------------ *)

\* A step of the model is one statement on the store together with the
\* handler's own code that leads up to it (parsing, validation, a call of
\* a provider): the store is the only thing the invocations share.

VARIABLES
  rows,     \* the table `reservations`, in insertion (rowid) order
  req,      \* req[k]: the k-th in-flight /api/reserve invocation
  sched,    \* the scheduled() invocation: runReminders and its sendBatch
  now,      \* the wall clock, in hours since 1970-01-01T00:00Z
  nextId,   \* how many ids crypto.randomUUID() has handed out
  clocks,   \* how often the clock has moved
  ticks,    \* how many scheduler ticks have started
  faults,   \* how many store and provider failures have happened
  view      \* the GET /api/calendar invocation: buildCalendar and its loop

vars == <<rows, req, sched, now, nextId, clocks, ticks, faults, view>>

Reqs == 1..NumReq

\* `tried` is the set of channels whose provider call this invocation made.
IdleReq ==
  [pc |-> "idle", date |-> <<>>, time |-> <<>>, name |-> <<>>, phone |-> <<>>,
   password |-> <<>>, id |-> <<>>, e |-> NULL, resp |-> NULL, tried |-> {}]

\* `batch` is rows.results of the current sendBatch and `i` the place of
\* its loop: the rows before place i have been attempted.
IdleSched ==
  [pc |-> "idle", kind |-> "", today |-> <<>>, tomorrow |-> <<>>,
   batch |-> <<>>, i |-> 0, e |-> NULL]

\* `first` and `start` are the day numbers of the locals, `i` the cells
\* pushed, `allowed` the local of that name in the last pass of the loop.
IdleView ==
  [pc |-> "idle", yyyy |-> 0, mm |-> 0, first |-> 0, start |-> 0, i |-> 0,
   allowed |-> <<>>, cells |-> <<>>, resp |-> NULL]

Init ==
  /\ rows = <<>>
  /\ req = [k \in Reqs |-> IdleReq]
  /\ sched = IdleSched
  /\ now = ClockStart
  /\ nextId = 0
  /\ clocks = 0
  /\ ticks = 0
  /\ faults = 0
  /\ view = IdleView

\* Whether a statement on the store or a call of a provider fails is the
\* environment's choice: TRUE is success.
Outcomes == IF faults < MaxFaults THEN {TRUE, FALSE} ELSE {TRUE}

Fails(ok) == IF ok THEN 0 ELSE 1

(* ------------------------------------------------------------------ *)
(* The store: the table and its statements                            *)
(* ------------------------------------------------------------------ *)

\* The row the INSERT of /api/reserve writes: status 'booked', every
\* notification column NULL.
NewRow(id, createdAt, date, time, name, phone, password) ==
  [id |-> id, created_at |-> createdAt, date |-> date, time |-> time,
   name |-> name, phone |-> phone, password |-> password,
   status |-> "booked",
   notify_confirm_at |-> NULL, notify_d1_at |-> NULL, notify_d0_at |-> NULL,
   email_sent_at |-> NULL, notify_last_error |-> NULL, email_last_error |-> NULL]

\* The constraint read as an index on the columns (date, time, status):
\* at most one row per (date, time) of any one status.
UniqueViolation_EveryStatus(table, row) ==
  \E i \in 1..Len(table) :
    /\ table[i].date = row.date
    /\ table[i].time = row.time
    /\ table[i].status = row.status

\* The table's uniqueness constraint: at most one 'booked' row per
\* (date, time).  True when adding `row` to `table` would break it.
UniqueViolation(table, row) ==
  /\ row.status = "booked"
  /\ \E i \in 1..Len(table) :
       /\ table[i].date = row.date
       /\ table[i].time = row.time
       /\ table[i].status = "booked"

\* UPDATE reservations SET <col> = <val>, ... WHERE id = ?
UpdateById(table, id, changes) ==
  [i \in 1..Len(table) |->
     IF table[i].id = id
     THEN [c \in DOMAIN table[i] |->
             IF c \in DOMAIN changes THEN changes[c] ELSE table[i][c]]
     ELSE table[i]]

(* ------------------------------------------------------------------ *)
(* POST /api/reserve                                                  *)
(* ------------------------------------------------------------------ *)

MinName  == 2
MinPhone == 9
MinPass  == 4

\* The validation sequence without its last check.
ValidationError_NoSlotCheck(date, time, name, phone, password) ==
  IF ~isYMD(date) THEN "invalid date"
  ELSE IF ~isHM(time) THEN "invalid time"
  ELSE IF Len(name) < MinName THEN "name required"
  ELSE IF Len(phone) < MinPhone THEN "phone required"
  ELSE IF Len(password) < MinPass THEN "password(>=4) required"
  ELSE ""

\* Lines 82-89, the validation sequence: the error of the first failing
\* check, or "".
ValidationError(date, time, name, phone, password) ==
  IF ~isYMD(date) THEN "invalid date"
  ELSE IF ~isHM(time) THEN "invalid time"
  ELSE IF Len(name) < MinName THEN "name required"
  ELSE IF Len(phone) < MinPhone THEN "phone required"
  ELSE IF Len(password) < MinPass THEN "password(>=4) required"
  ELSE IF ~Includes(allowedTimesForDate(date), time) THEN "time not allowed for that date"
  ELSE ""

\* Lines 68-89: the error of a request body after normalisation, or "".
BodyError(body) ==
  ValidationError(body.date, body.time, Trim(body.name),
                  digitsOnly(body.phone), Trim(body.password))

\* Lines 82-89: the response to a body that fails validation.
RejectResponse(body) == Json(400, BodyError(body), NULL, NULL)

\* Lines 68-89: a body that fails validation is answered 400 at once, with
\* RejectResponse(body); the handler returns before it touches the store
\* or a provider, and no invocation stays in flight.
ReserveReject(body) ==
  /\ BodyError(body) # ""
  /\ UNCHANGED vars

\* Every failed INSERT reported as a storage error.
InsertFailure_Always500(msg) == Json(500, "db error", NULL, Some(msg))

\* Every failed INSERT reported as a conflict.
InsertFailure_Always409(msg) == Json(409, "already booked", NULL, NULL)

\* Lines 115-121: the response to a failed INSERT.
InsertFailure(msg) ==
  IF MsgIncludes(msg, "unique") \/ MsgIncludes(msg, "constraint")
  THEN Json(409, "already booked", NULL, NULL)
  ELSE Json(500, "db error", NULL, Some(msg))

\* The INSERT answered by a store that has no uniqueness constraint.
InsertResult_NoConstraint(table, row, ok) == IF ~ok THEN MSG_STORE ELSE NULL

\* What the store answers to the INSERT: NULL when the row went in, the
\* error message otherwise.
InsertResult(table, row, ok) ==
  IF UniqueViolation(table, row) THEN MSG_UNIQUE
  ELSE IF ~ok THEN MSG_STORE
  ELSE NULL

\* Lines 68-121: a body that passes validation takes an id and a creation
\* time, and the single INSERT is issued.  The store rejects it when it
\* breaks the uniqueness constraint, and may fail for a reason of its own.
\* (The lowest idle invocation takes the request: which one does is
\* immaterial.)
ReserveInsert(k, body) ==
  /\ req[k].pc = "idle"
  /\ \A j \in Reqs : j < k => req[j].pc # "idle"
  /\ BodyError(body) = ""
  /\ nextId < MaxIds
  /\ nextId' = nextId + 1
  /\ \E ok \in Outcomes :
       LET r   == [IdleReq EXCEPT !.date = body.date, !.time = body.time,
                                  !.name = Trim(body.name), !.phone = digitsOnly(body.phone),
                                  !.password = Trim(body.password), !.id = IdStr(nextId + 1)]
           row == NewRow(r.id, Some(now), r.date, r.time, r.name, r.phone, r.password)
           msg == InsertResult(rows, row, ok)
       IN  /\ faults' = faults + (IF msg = MSG_STORE THEN 1 ELSE 0)
           /\ IF msg = NULL
              THEN /\ rows' = Append(rows, row)
                   /\ req' = [req EXCEPT ![k] = [r EXCEPT !.pc = "confirm"]]
              ELSE /\ rows' = rows
                   /\ req' = [req EXCEPT ![k] = [r EXCEPT !.pc = "done", !.e = Some(msg),
                                                          !.resp = Some(InsertFailure(msg))]]
  /\ UNCHANGED <<sched, now, clocks, ticks, view>>

ChannelError(chan) == IF chan = "confirm" THEN MSG_ALIGO ELSE MSG_RESEND

\* Where /api/reserve goes once a channel's bookkeeping is written: from
\* the confirmation to the email, from the email to the response (line 147).
AfterChannel(r, chan) ==
  IF chan = "confirm"
  THEN [r EXCEPT !.pc = "email", !.e = NULL]
  ELSE [r EXCEPT !.pc = "done", !.e = NULL,
                 !.resp = Some(Json(200, "", Some(r.id), NULL))]

\* Lines 186-188: the top-level catch.
ServerError(r, msg) ==
  [r EXCEPT !.pc = "done", !.e = Some(msg),
            !.resp = Some(Json(500, "server error", NULL, Some(msg)))]

\* The columns a channel's success writes.
StampColumns(chan, t) ==
  IF chan = "confirm"
  THEN [notify_confirm_at |-> Some(t), notify_last_error |-> NULL]
  ELSE [email_sent_at |-> Some(t), email_last_error |-> NULL]

\* A failure that writes the channel's timestamp as well.
ErrorColumns_AlsoStamp(chan, e) ==
  IF chan = "confirm"
  THEN [notify_confirm_at |-> e, notify_last_error |-> e]
  ELSE [email_sent_at |-> e, email_last_error |-> e]

\* The column a channel's failure writes.
ErrorColumns(chan, e) ==
  IF chan = "confirm"
  THEN [notify_last_error |-> e]
  ELSE [email_last_error |-> e]

\* What the catch block of a channel leads to: the next step of the
\* handler when its UPDATE went through, the top-level catch when it threw.
AfterCatch(r, chan, ok) ==
  IF ok THEN AfterChannel(r, chan) ELSE ServerError(r, MSG_STORE)

\* Lines 124-133 / 136-145 up to the first UPDATE: the provider call
\* returns and the try block stamps the channel's timestamp, or the call
\* throws and the catch block writes the error column.  When the try
\* block's own UPDATE throws, control passes to the catch block with the
\* store's error (ReserveCatch).
ReserveNotify(k, chan) ==
  /\ req[k].pc = chan
  /\ \E sendOk \in Outcomes, storeOk \in BOOLEAN :
       LET r == [req[k] EXCEPT !.tried = @ \cup {chan}]
       IN  /\ faults + Fails(sendOk) + Fails(storeOk) <= MaxFaults
           /\ faults' = faults + Fails(sendOk) + Fails(storeOk)
           /\ IF sendOk
              THEN /\ rows' = IF storeOk THEN UpdateById(rows, r.id, StampColumns(chan, now))
                              ELSE rows
                   /\ req' = [req EXCEPT ![k] =
                                IF storeOk THEN AfterChannel(r, chan)
                                ELSE [r EXCEPT !.pc = chan \o "_catch", !.e = Some(MSG_STORE)]]
              ELSE /\ rows' = IF storeOk
                              THEN UpdateById(rows, r.id, ErrorColumns(chan, Some(ChannelError(chan))))
                              ELSE rows
                   /\ req' = [req EXCEPT ![k] = AfterCatch(r, chan, storeOk)]
  /\ UNCHANGED <<sched, now, nextId, clocks, ticks, view>>

\* Lines 129-133 / 141-145 after the try block's UPDATE threw: the catch
\* block's UPDATE of the error column.
ReserveCatch(k, chan) ==
  /\ req[k].pc = chan \o "_catch"
  /\ \E ok \in Outcomes :
       /\ faults' = faults + Fails(ok)
       /\ rows' = IF ok THEN UpdateById(rows, req[k].id, ErrorColumns(chan, req[k].e))
                  ELSE rows
       /\ req' = [req EXCEPT ![k] = AfterCatch(req[k], chan, ok)]
  /\ UNCHANGED <<sched, now, nextId, clocks, ticks, view>>

\* The response has been delivered; the invocation ends.
ReserveEnd(k) ==
  /\ req[k].pc = "done"
  /\ req' = [req EXCEPT ![k] = IdleReq]
  /\ UNCHANGED <<rows, sched, now, nextId, clocks, ticks, faults, view>>

(* ------------------------------------------------------------------ *)
(* POST /api/cancel and GET /api/my                                   *)
(* ------------------------------------------------------------------ *)

ID_PAD     == <<" ", "u", "1", " ">>
ID_UNKNOWN == <<"u", "9">>
P_NONE     == <<"-">>
W_BLANK    == <<" ">>

Creds(n, p, w) == [name |-> n, phone |-> p, password |-> w]

\* The credentials tried: the two customers' own (in raw and in stored
\* form), each with one field of the other customer, and each field empty.
Credentials ==
  { Creds(N_KIM_PAD, P_KIM_DASH, W_KIM),
    Creds(N_KIM, P_KIM, W_KIM),
    Creds(N_LEE, P_LEE, W_LEE),
    Creds(N_LEE, P_KIM, W_KIM),
    Creds(N_KIM, P_LEE, W_KIM),
    Creds(N_KIM, P_KIM, W_LEE),
    Creds(<<>>, P_KIM, W_KIM),
    Creds(N_KIM, P_NONE, W_KIM),
    Creds(N_KIM, P_KIM, W_BLANK) }

MyQueries == Credentials

CancelBody(i, n, p, w) == [id |-> i, name |-> n, phone |-> p, password |-> w]

\* The JSON bodies of POST /api/cancel that are tried: each customer's own
\* credentials with each id (raw and padded), an id no row has, one field
\* of the other customer, and each field empty after normalisation.
CancelBodies ==
  { CancelBody(IdStr(1), N_KIM_PAD, P_KIM_DASH, W_KIM),
    CancelBody(IdStr(2), N_KIM, P_KIM, W_KIM),
    CancelBody(IdStr(1), N_LEE, P_LEE, W_LEE),
    CancelBody(IdStr(2), N_LEE, P_LEE, W_LEE),
    CancelBody(ID_PAD, N_KIM, P_KIM, W_KIM),
    CancelBody(ID_UNKNOWN, N_KIM, P_KIM, W_KIM),
    CancelBody(IdStr(1), N_LEE, P_KIM, W_KIM),
    CancelBody(IdStr(1), N_KIM, P_LEE, W_KIM),
    CancelBody(IdStr(1), N_KIM, P_KIM, W_LEE),
    CancelBody(<<>>, N_KIM, P_KIM, W_KIM),
    CancelBody(IdStr(1), <<>>, P_KIM, W_KIM),
    CancelBody(IdStr(1), N_KIM, P_NONE, W_KIM),
    CancelBody(IdStr(1), N_KIM, P_KIM, W_BLANK) }

\* The WHERE clause of the cancel without the password.
CancelMatches_NoPassword(row, id, name, phone, password) ==
  /\ row.id = id
  /\ row.name = name
  /\ row.phone = phone
  /\ row.status = "booked"

\* WHERE id=? AND name=? AND phone=? AND password=? AND status='booked'
CancelMatches(row, id, name, phone, password) ==
  /\ row.id = id
  /\ row.name = name
  /\ row.phone = phone
  /\ row.password = password
  /\ row.status = "booked"

\* A cancel that deletes the row.
CancelUpdate_Delete(table, id, name, phone, password) ==
  LET keep(row) == ~CancelMatches(row, id, name, phone, password)
  IN  SelectSeq(table, keep)

\* UPDATE reservations SET status='canceled' WHERE ...
CancelUpdate(table, id, name, phone, password) ==
  [i \in 1..Len(table) |->
     IF CancelMatches(table[i], id, name, phone, password)
     THEN [table[i] EXCEPT !.status = "canceled"]
     ELSE table[i]]

\* r.meta.changes of that UPDATE
CancelChanges(table, id, name, phone, password) ==
  Cardinality({i \in 1..Len(table) : CancelMatches(table[i], id, name, phone, password)})

\* The table without its i-th row.
Without(table, i) == SubSeq(table, 1, i - 1) \o SubSeq(table, i + 1, Len(table))

\* The store holds every statement to the table's constraint: true when
\* the UPDATE of the cancel would leave a row that breaks it.
CancelViolation(table, id, name, phone, password) ==
  LET after == CancelUpdate(table, id, name, phone, password)
  IN  \E i \in 1..Len(after) :
        /\ after[i] # table[i]
        /\ UniqueViolation(Without(after, i), after[i])

\* The UPDATE throws: the store fails, or refuses the statement.
CancelThrows(table, id, name, phone, password, ok) ==
  ~ok \/ CancelViolation(table, id, name, phone, password)

\* Lines 167-183: the response of /api/cancel.  A store failure reaches
\* the top-level catch.
CancelResponse(table, body, ok) ==
  LET id       == Trim(body.id)
      name     == Trim(body.name)
      phone    == digitsOnly(body.phone)
      password == Trim(body.password)
  IN  IF id = <<>> \/ name = <<>> \/ phone = <<>> \/ password = <<>>
      THEN Reply(400, "id/name/phone/password required", <<>>, NULL)
      ELSE IF CancelThrows(table, id, name, phone, password, ok)
      THEN Reply(500, "server error", <<>>,
                 Some(IF ok THEN MSG_UNIQUE ELSE MSG_STORE))
      ELSE IF CancelChanges(table, id, name, phone, password) < 1
      THEN Reply(404, "not found or already canceled", <<>>, NULL)
      ELSE Reply(200, "", <<>>, NULL)

\* Lines 167-183: the table after /api/cancel.
CancelEffect(table, body, ok) ==
  LET id       == Trim(body.id)
      name     == Trim(body.name)
      phone    == digitsOnly(body.phone)
      password == Trim(body.password)
  IN  IF \/ id = <<>> \/ name = <<>> \/ phone = <<>> \/ password = <<>>
         \/ CancelThrows(table, id, name, phone, password, ok)
      THEN table
      ELSE CancelUpdate(table, id, name, phone, password)

\* Lines 167-183.  The request is handled in one step, its one statement
\* being the UPDATE; it is answered with CancelResponse(rows, body, ok).
Cancel(body) ==
  /\ \E ok \in BOOLEAN : rows' = CancelEffect(rows, body, ok)
  /\ UNCHANGED <<req, sched, now, nextId, clocks, ticks, faults, view>>

\* LIMIT 20 of /api/my
MyLimit == 20

\* The first n elements of a sequence (LIMIT n).
Limit(seq, n) == SubSeq(seq, 1, IF Len(seq) < n THEN Len(seq) ELSE n)

\* ORDER BY created_at DESC: insert x into a sequence sorted that way.
\* Rows of equal created_at come in an order SQL leaves open; `tieFirst`
\* says whether x goes before or after its equals.
RECURSIVE InsertDesc(_, _, _)
InsertDesc(sorted, x, tieFirst) ==
  IF sorted = <<>> THEN <<x>>
  ELSE IF \/ x.created_at[1] > Head(sorted).created_at[1]
          \/ (tieFirst /\ x.created_at[1] = Head(sorted).created_at[1])
       THEN <<x>> \o sorted
       ELSE <<Head(sorted)>> \o InsertDesc(Tail(sorted), x, tieFirst)

RECURSIVE OrderByCreatedDesc(_, _)
OrderByCreatedDesc(table, tieFirst) ==
  IF table = <<>> THEN <<>>
  ELSE InsertDesc(OrderByCreatedDesc(Tail(table), tieFirst), Head(table), tieFirst)

\* The WHERE clause of the lookup without the password.
MyMatches_NoPassword(row, name, phone, password) ==
  row.name = name /\ row.phone = phone

\* WHERE name=? AND phone=? AND password=?
MyMatches(row, name, phone, password) ==
  row.name = name /\ row.phone = phone /\ row.password = password

\* SELECT id, created_at, date, time, status
MyItem(row) ==
  [id |-> row.id, created_at |-> row.created_at, date |-> row.date,
   time |-> row.time, status |-> row.status]

\* Lines 156-162
MySelect(table, name, phone, password, tieFirst) ==
  LET hit(row)  == MyMatches(row, name, phone, password)
      found     == OrderByCreatedDesc(SelectSeq(table, hit), tieFirst)
      top       == Limit(found, MyLimit)
  IN  [i \in 1..Len(top) |-> MyItem(top[i])]

\* Lines 150-165: the response of /api/my.
MyResponse(table, q, ok, tieFirst) ==
  LET name     == Trim(q.name)
      phone    == digitsOnly(q.phone)
      password == Trim(q.password)
  IN  IF name = <<>> \/ phone = <<>> \/ password = <<>>
      THEN Reply(400, "name/phone/password required", <<>>, NULL)
      ELSE IF ~ok
      THEN Reply(500, "server error", <<>>, Some(MSG_STORE))
      ELSE Reply(200, "", MySelect(table, name, phone, password, tieFirst), NULL)

\* Lines 150-165.  A read: it is answered with MyResponse(rows, q, ok,
\* tieFirst) and changes nothing.
My(q) ==
  /\ q \in MyQueries
  /\ UNCHANGED vars

(* ------------------------------------------------------------------ *)
(* Cron: runReminders and sendBatch                                   *)
(* ------------------------------------------------------------------ *)

KstOffset == 9
HoursPerDay == 24

\* LIMIT 200 of sendBatch
BatchLimit == 200

\* Lines 518-519: the UTC+9 day number of the clock.
KstDay(t) == (t + KstOffset) \div HoursPerDay

\* Lines 521-524
TodayOf(t) == FormatYMD(KstDay(t))

\* Lines 526-530: Date.UTC(y, month, day + 1), formatted
TomorrowOf(t) ==
  LET c == CivilFromDays(KstDay(t))
  IN  FormatYMD(DaysFromCivil(c[1], c[2], c[3] + 1))

MarkCol(kind) == IF kind = "D1" THEN "notify_d1_at" ELSE "notify_d0_at"

\* The WHERE clause of a batch without its IS NULL condition.
BatchMatches_IgnoreMark(row, date, kind) ==
  /\ row.status = "booked"
  /\ row.date = date

\* WHERE status='booked' AND date=? AND <markCol> IS NULL
BatchMatches(row, date, kind) ==
  /\ row.status = "booked"
  /\ row.date = date
  /\ row[MarkCol(kind)] = NULL

\* SELECT id, name, phone, date, time ... LIMIT 200 (rows come in rowid order)
BatchSelect(table, date, kind) ==
  LET hit(row) == BatchMatches(row, date, kind)
      found    == Limit(SelectSeq(table, hit), BatchLimit)
  IN  [i \in 1..Len(found) |->
         [id |-> found[i].id, name |-> found[i].name, phone |-> found[i].phone,
          date |-> found[i].date, time |-> found[i].time]]

\* Lines 532-533: the date of the batch being processed.
BatchDate(s) == IF s.kind = "D1" THEN s.tomorrow ELSE s.today

\* The loop of sendBatch moves to its next row; past the last row the
\* D-1 batch is followed by the D-day batch, and the D-day batch by the
\* end of runReminders.
SchedContinue(s) ==
  IF s.i < Len(s.batch)
  THEN [s EXCEPT !.pc = "send", !.i = s.i + 1, !.e = NULL]
  ELSE IF s.kind = "D1"
       THEN [s EXCEPT !.pc = "select", !.kind = "D0", !.batch = <<>>, !.i = 0, !.e = NULL]
       ELSE [s EXCEPT !.pc = "end", !.e = NULL]

\* An exception that nothing catches leaves sendBatch and runReminders.
SchedThrow(s, msg) == [s EXCEPT !.pc = "thrown", !.e = Some(msg)]

\* What follows the catch block's UPDATE: the loop goes on when it went
\* through; when it threw, nothing catches the exception.
SchedAfterCatch(s, ok) == IF ok THEN SchedContinue(s) ELSE SchedThrow(s, MSG_STORE)

\* Lines 537-542: the SELECT of one batch.
SelectBatch(s, ok) ==
  IF ok
  THEN SchedContinue([s EXCEPT !.batch = BatchSelect(rows, BatchDate(s), s.kind), !.i = 0])
  ELSE SchedThrow(s, MSG_STORE)

\* Lines 192-194, 516-532 and 537-542: a tick starts; the two dates are
\* computed before the first await, and the D-1 batch is selected.
SchedStart ==
  /\ sched.pc = "idle"
  /\ ticks < MaxTicks
  /\ ticks' = ticks + 1
  /\ \E ok \in Outcomes :
       /\ faults' = faults + Fails(ok)
       /\ sched' = SelectBatch([IdleSched EXCEPT !.kind = "D1", !.today = TodayOf(now),
                                               !.tomorrow = TomorrowOf(now)], ok)
  /\ UNCHANGED <<rows, req, now, nextId, clocks, view>>

\* SchedStart without the count of the ticks: the cron trigger fires
\* again and again.  The locals of lines 518-530 are computed one after
\* the other: kst, today, tomorrowDate, tomorrow.
SchedTick ==
  /\ sched.pc = "idle"
  /\ \E ok \in Outcomes, kst \in {CivilFromDays(KstDay(now))} :
       \E today \in {FormatYMD(KstDay(now))},
          tomorrowDate \in {DaysFromCivil(kst[1], kst[2], kst[3] + 1)} :
         \E tomorrow \in {FormatYMD(tomorrowDate)} :
           \E s \in {SelectBatch([IdleSched EXCEPT !.kind = "D1", !.today = today,
                                                   !.tomorrow = tomorrow], ok)} :
             /\ faults' = faults + Fails(ok)
             /\ sched' = s
  /\ UNCHANGED <<rows, req, now, nextId, clocks, ticks, view>>

\* Lines 533 and 537-542: the D-day batch is selected.
SchedSelect ==
  /\ sched.pc = "select"
  /\ \E ok \in Outcomes :
       /\ faults' = faults + Fails(ok)
       /\ sched' = SelectBatch(sched, ok)
  /\ UNCHANGED <<rows, req, now, nextId, clocks, ticks, view>>

\* A success that clears the error and leaves the timestamp absent.
MarkColumns_NoStamp(kind, t) == [notify_last_error |-> NULL]

\* The columns a reminder's success writes.
MarkColumns(kind, t) ==
  IF kind = "D1"
  THEN [notify_d1_at |-> Some(t), notify_last_error |-> NULL]
  ELSE [notify_d0_at |-> Some(t), notify_last_error |-> NULL]

\* Lines 545-554 up to the first UPDATE: the reminder of the current row
\* is sent and the try block stamps its column, or the call throws and the
\* catch block writes the shared error column.  When the try block's own
\* UPDATE throws, control passes to the catch block (SchedCatch).
SchedNotify ==
  /\ sched.pc = "send"
  /\ \E sendOk \in Outcomes, storeOk \in BOOLEAN :
       LET cur == sched.batch[sched.i]
           s   == sched
       IN  /\ faults + Fails(sendOk) + Fails(storeOk) <= MaxFaults
           /\ faults' = faults + Fails(sendOk) + Fails(storeOk)
           /\ IF sendOk
              THEN /\ rows' = IF storeOk THEN UpdateById(rows, cur.id, MarkColumns(s.kind, now))
                              ELSE rows
                   /\ sched' = IF storeOk THEN SchedContinue(s)
                               ELSE [s EXCEPT !.pc = "catch", !.e = Some(MSG_STORE)]
              ELSE /\ rows' = IF storeOk
                              THEN UpdateById(rows, cur.id, [notify_last_error |-> Some(MSG_ALIGO)])
                              ELSE rows
                   /\ sched' = SchedAfterCatch(s, storeOk)
  /\ UNCHANGED <<req, now, nextId, clocks, ticks, view>>

\* Lines 550-554 after the try block's UPDATE threw: the catch block's
\* UPDATE of the shared error column.
SchedCatch ==
  /\ sched.pc = "catch"
  /\ \E ok \in Outcomes :
       /\ faults' = faults + Fails(ok)
       /\ rows' = IF ok
                  THEN UpdateById(rows, sched.batch[sched.i].id, [notify_last_error |-> sched.e])
                  ELSE rows
       /\ sched' = SchedAfterCatch(sched, ok)
  /\ UNCHANGED <<req, now, nextId, clocks, ticks, view>>

\* The promise of runReminders has settled, fulfilled (pc "end") or
\* rejected (pc "thrown"); the invocation is over.
SchedEnd ==
  /\ sched.pc \in {"end", "thrown"}
  /\ sched' = IdleSched
  /\ UNCHANGED <<rows, req, now, nextId, clocks, ticks, faults, view>>

(* ------------------------------------------------------------------ *)
(* GET /api/times                                                     *)
(* ------------------------------------------------------------------ *)

D_SAT == <<"2", "0", "2", "5", "-", "0", "3", "-", "1", "5">>
D_M13 == <<"2", "0", "2", "5", "-", "1", "3", "-", "0", "1">>

\* The ?date= values tried: a Friday, a Saturday, a Sunday, a text that is
\* no YYYY-MM-DD, and a YYYY-MM-DD text that is no date.
TimeQueries == {D_FRI, D_SAT, D_SUN, D_SHORT, D_M13}

\* Mutation of getClosedTimes: the status of a row is not looked at.
getClosedTimes_AnyStatus(table, ymd) ==
  LET hit(row) == row.date = ymd
      found    == SelectSeq(table, hit)
  IN  [i \in 1..Len(found) |-> found[i].time]

\* SELECT time FROM reservations WHERE date=? AND status='booked'
getClosedTimes(table, ymd) ==
  LET hit(row) == row.date = ymd /\ row.status = "booked"
      found    == SelectSeq(table, hit)
  IN  [i \in 1..Len(found) |-> found[i].time]

\* times.filter((t) => !closed.includes(t))
Available(times, closed) ==
  LET open(t) == ~Includes(closed, t)
  IN  SelectSeq(times, open)

TimesReply(status, error, date, times, closed, available, detail) ==
  [status |-> status, error |-> error, date |-> date, times |-> times,
   closed |-> closed, available |-> available, detail |-> detail]

\* Lines 56-65: the response of /api/times.
TimesResponse(table, date, ok) ==
  IF ~isYMD(date)
  THEN TimesReply(400, "invalid date", <<>>, <<>>, <<>>, <<>>, NULL)
  ELSE IF ~ok
  THEN TimesReply(500, "server error", <<>>, <<>>, <<>>, <<>>, Some(MSG_STORE))
  ELSE LET times  == allowedTimesForDate(date)
           closed == getClosedTimes(table, date)
       IN  TimesReply(200, "", date, times, closed, Available(times, closed), NULL)

\* Lines 56-65.  A read: it is answered with TimesResponse(rows, date, ok)
\* and changes nothing.
Times(date) ==
  /\ date \in TimeQueries
  /\ UNCHANGED vars

(* ------------------------------------------------------------------ *)
(* GET /api/calendar: buildCalendar                                   *)
(* ------------------------------------------------------------------ *)

\* A number of the query string is held in tenths: 15 is 1.5.
Tenths == 10

RECURSIVE DecimalValue(_)
DecimalValue(s) ==
  IF s = <<>> THEN 0
  ELSE 10 * DecimalValue(SubSeq(s, 1, Len(s) - 1)) + DigitVal(s[Len(s)])

AllDigits(s) == s # <<>> /\ \A i \in 1..Len(s) : IsDigit(s[i])

\* Number(v), in tenths, for a text of digits with at most one digit after
\* a point; Number(null) and Number("") are 0, Number of any other text is
\* NaN.
Number(v) ==
  IF v = <<>> THEN 0
  ELSE IF AllDigits(v) THEN Tenths * DecimalValue(v)
  ELSE IF /\ Len(v) >= 3
          /\ v[Len(v) - 1] = "."
          /\ AllDigits(SubSeq(v, 1, Len(v) - 2))
          /\ IsDigit(v[Len(v)])
  THEN Tenths * DecimalValue(SubSeq(v, 1, Len(v) - 2)) + DigitVal(v[Len(v)])
  ELSE NaN

\* toInt(v): null, written NaN here, when Number(v) is not finite.
toInt(v) == Number(v)

\* !n for the result of toInt: null and 0 are falsy.
Falsy(n) == n = NaN \/ n = 0

\* Line 51: the request is answered 400.
InvalidYM(yyyy, mm) ==
  Falsy(yyyy) \/ Falsy(mm) \/ mm < 1 * Tenths \/ mm > 12 * Tenths

\* ToIntegerOrInfinity of a number that is not negative.
Trunc(n) == n \div Tenths

\* Date.UTC(year, month, 1) as a day number: the arguments are truncated,
\* a year 0..99 means 1900 + year, and a month outside 0..11 runs into the
\* neighbouring years.
DateUTC(year, month) ==
  LET y0 == Trunc(year)
      y  == IF y0 \in 0..99 THEN 1900 + y0 ELSE y0
      m  == IF month >= 0 THEN Trunc(month) ELSE -Trunc(-month)
      ym == y * 12 + m
  IN  DaysFromCivil(ym \div 12, (ym % 12) + 1, 1)

\* available.join("\n")
RECURSIVE Join(_)
Join(seq) ==
  IF seq = <<>> THEN <<>>
  ELSE IF Len(seq) = 1 THEN seq[1]
  ELSE seq[1] \o <<"\n">> \o Join(Tail(seq))

\* String(n) of a number that is not negative, held in tenths.
RECURSIVE Decimal(_)
Decimal(n) ==
  IF n < 10 THEN <<DigitChar(n)>> ELSE Decimal(n \div 10) \o <<DigitChar(n % 10)>>

String(n) ==
  IF n % Tenths = 0 THEN Decimal(n \div Tenths)
  ELSE Decimal(n \div Tenths) \o <<".">> \o <<DigitChar(n % Tenths)>>

\* s.padStart(2, "0")
padStart2(s) == IF Len(s) < 2 THEN <<"0">> \o s ELSE s

GridSize == 42

YM(yyyy, mm) == [yyyy |-> yyyy, mm |-> mm]

\* The months 1..12 as they are written in a query string.
MonthTexts == {Decimal(m) : m \in 1..12}

\* The query strings of GET /api/calendar that are tried: every month of a
\* leap year and of the year of ClockStart, a month of a two-digit year, a
\* padded month, a month and a half, and what line 51 refuses.
CalendarQueries ==
  {YM(y, m) : y \in {<<"2", "0", "2", "4">>, <<"2", "0", "2", "5">>}, m \in MonthTexts}
    \cup {YM(<<"2", "5">>, <<"3">>),
          YM(<<"2", "0", "2", "5">>, <<"0", "3">>),
          YM(<<"2", "0", "2", "5">>, <<"1", ".", "5">>),
          YM(<<"2", "0", "2", "5">>, <<"1", "3">>),
          YM(<<"2", "0", "2", "5">>, <<"0">>),
          YM(<<"2", "0", "2", "5">>, <<>>),
          YM(<<>>, <<"3">>),
          YM(<<"x">>, <<"3">>)}

CalendarReply(status, error, body, detail) ==
  [status |-> status, error |-> error, body |-> body, detail |-> detail]

\* Lines 49-51: the response to a query that line 51 refuses.
CalendarRejectResponse(q) ==
  CalendarReply(400, "invalid yyyy/mm", NULL, NULL)

\* Lines 48-51.  A refused query changes nothing.
CalendarReject(q) ==
  /\ InvalidYM(toInt(q.yyyy), toInt(q.mm))
  /\ UNCHANGED vars

\* Lines 246-250: buildCalendar up to its loop.
CalendarStart(q) ==
  LET yyyy  == toInt(q.yyyy)
      mm    == toInt(q.mm)
      first == DateUTC(yyyy, mm - 1 * Tenths)
  IN  /\ view.pc = "idle"
      /\ ~InvalidYM(yyyy, mm)
      /\ view' = [IdleView EXCEPT !.pc = "cells", !.yyyy = yyyy, !.mm = mm,
                                  !.first = first,
                                  !.start = first - ((first + 4) % 7)]
      /\ UNCHANGED <<rows, req, sched, now, nextId, clocks, ticks, faults>>

\* Line 269: the marker of a cell.
Marker(cur, first, mm) ==
  IF CivilFromDays(cur)[2] * Tenths = mm THEN 0
  ELSE IF cur < first THEN -1 ELSE 1

Cell(ymd, timeStr, cm) == [date |-> ymd, time |-> timeStr, cm |-> cm, ann |-> NULL]

\* Lines 252-271: one pass of the loop.  The SELECT of getClosedTimes is
\* made for a date that has slots; when it fails the exception leaves
\* buildCalendar and the handler, and line 186 answers 500.
CalendarCell(ok) ==
  LET cur     == view.start + view.i
      ymd     == FormatYMD(cur)
      allowed == allowedTimesForDate(ymd)
      closed  == getClosedTimes(rows, ymd)
      timeStr == IF allowed # <<>> THEN Join(Available(allowed, closed)) ELSE <<>>
      cm      == Marker(cur, view.first, view.mm)
  IN  /\ view.pc = "cells"
      /\ view.i < GridSize
      /\ allowed = <<>> => ok
      /\ faults' = faults + Fails(ok)
      /\ view' = IF ok
                 THEN [view EXCEPT !.i = @ + 1, !.allowed = allowed,
                                   !.cells = Append(@, Cell(ymd, timeStr, cm))]
                 ELSE [view EXCEPT !.pc = "done",
                                   !.resp = Some(CalendarReply(500, "server error", NULL,
                                                               Some(MSG_STORE)))]
      /\ UNCHANGED <<rows, req, sched, now, nextId, clocks, ticks>>

\* getUTCFullYear() and getUTCMonth() + 1 of a day number, the month padded.
YearMonth(z) == [yyyy |-> CivilFromDays(z)[1], mm |-> Pad2(CivilFromDays(z)[2])]

\* Lines 273-282: the value buildCalendar returns, and line 53.
CalendarReturn ==
  LET prevDate == DateUTC(view.yyyy, view.mm - 2 * Tenths)
      nextDate == DateUTC(view.yyyy, view.mm)
      data     == [yyyy |-> view.yyyy, mm |-> padStart2(String(view.mm)),
                   prev |-> YearMonth(prevDate), next |-> YearMonth(nextDate),
                   dates |-> view.cells]
  IN  /\ view.pc = "cells"
      /\ view.i = GridSize
      /\ view' = [view EXCEPT !.pc = "done",
                              !.resp = Some(CalendarReply(200, "", Some(data), NULL))]
      /\ UNCHANGED <<rows, req, sched, now, nextId, clocks, ticks, faults>>

\* The response is sent and the invocation is over.
CalendarEnd ==
  /\ view.pc = "done"
  /\ view' = IdleView
  /\ UNCHANGED <<rows, req, sched, now, nextId, clocks, ticks, faults>>

(* ------------------------------------------------------------------ *)
(* The clock and the specification                                    *)
(* ------------------------------------------------------------------ *)

\* The clock moves by half a day, and an invocation lasts far less than
\* that: the clock moves between invocations.
AdvanceClock ==
  /\ clocks < MaxClock
  /\ sched.pc = "idle"
  /\ \A k \in Reqs : req[k].pc = "idle"
  /\ clocks' = clocks + 1
  /\ now' = now + ClockStep
  /\ UNCHANGED <<rows, req, sched, nextId, ticks, faults, view>>

Channels == {"confirm", "email"}

\* The HTTP routes that write or read the table (lines 68-183).
NextHttp ==
  \/ \E body \in ReserveBodies : ReserveReject(body)
  \/ \E k \in Reqs, body \in ReserveBodies : ReserveInsert(k, body)
  \/ \E k \in Reqs, chan \in Channels : ReserveNotify(k, chan)
  \/ \E k \in Reqs, chan \in Channels : ReserveCatch(k, chan)
  \/ \E k \in Reqs : ReserveEnd(k)
  \/ \E body \in CancelBodies : Cancel(body)
  \/ \E q \in MyQueries : My(q)
  \/ \E date \in TimeQueries : Times(date)
  \/ AdvanceClock

\* The cron trigger (lines 192-194, 516-556).
NextCron ==
  \/ SchedStart
  \/ SchedSelect
  \/ SchedNotify
  \/ SchedCatch
  \/ SchedEnd

Next == NextHttp \/ NextCron

\* GET /api/calendar (lines 48-54, 246-283).
NextCalendar ==
  \/ \E q \in CalendarQueries : CalendarReject(q)
  \/ \E q \in CalendarQueries : CalendarStart(q)
  \/ \E ok \in Outcomes : CalendarCell(ok)
  \/ CalendarReturn
  \/ CalendarEnd

\* The whole program from the empty table.
Spec == Init /\ [][Next \/ NextCalendar]_vars

\* The Worker deployed without a cron trigger: HTTP requests only, from
\* the empty table, two /api/reserve invocations in flight at a time.
SpecHttp == Init /\ [][NextHttp]_vars

\* The row of the first body of ReserveBodies, admitted at ClockStart with
\* both notifications delivered.
FirstBooking ==
  [NewRow(IdStr(1), Some(ClockStart), D_FRI, T1300, N_KIM, P_KIM, W_KIM)
     EXCEPT !.notify_confirm_at = Some(ClockStart), !.email_sent_at = Some(ClockStart)]

\* The state Spec is in after one /api/reserve has been served without a
\* failure.
InitCron ==
  /\ rows = <<FirstBooking>>
  /\ req = [k \in Reqs |-> IdleReq]
  /\ sched = IdleSched
  /\ now = ClockStart
  /\ nextId = 1
  /\ clocks = 0
  /\ ticks = 0
  /\ faults = 0
  /\ view = IdleView

\* The whole program, HTTP requests and cron ticks interleaved, from the
\* table with its first booking made.
SpecCron == InitCron /\ [][Next]_vars

\* A customer's history: one booking of Kim made a day before ClockStart,
\* then BulkSize bookings of Kim made half a day before ClockStart, on
\* other slots, all canceled since.
BulkSize == MyLimit

BulkId(n) == <<"k">> \o Pad2(n)

\* The n-th working day from Monday 2025-03-17 on.
BulkDay(n) == DaysFromCivil(2025, 3, 17) + (n - 1) + 2 * ((n - 1) \div 5)

BulkRow(n) ==
  [NewRow(BulkId(n), Some(ClockStart - ClockStep),
          FormatYMD(BulkDay((n + 1) \div 2)),
          IF n % 2 = 1 THEN T1300 ELSE T1500, N_KIM, P_KIM, W_KIM)
     EXCEPT !.status = "canceled",
            !.notify_confirm_at = Some(ClockStart - ClockStep),
            !.email_sent_at = Some(ClockStart - ClockStep)]

OldBooking ==
  [FirstBooking EXCEPT !.created_at = Some(ClockStart - HoursPerDay),
                       !.notify_confirm_at = Some(ClockStart - HoursPerDay),
                       !.email_sent_at = Some(ClockStart - HoursPerDay)]

InitBulk ==
  /\ rows = <<OldBooking>> \o [n \in 1..BulkSize |-> BulkRow(n)]
  /\ req = [k \in Reqs |-> IdleReq]
  /\ sched = IdleSched
  /\ now = ClockStart
  /\ nextId = 1
  /\ clocks = 0
  /\ ticks = 0
  /\ faults = 0
  /\ view = IdleView

\* The HTTP routes on the table of a customer with a long history.
SpecBulk == InitBulk /\ [][NextHttp]_vars


\* The row of the third body of ReserveBodies, admitted at ClockStart with
\* both notifications delivered.
SecondBooking ==
  [NewRow(IdStr(2), Some(ClockStart), D_FRI, T1500, N_LEE, P_LEE, W_LEE)
     EXCEPT !.notify_confirm_at = Some(ClockStart), !.email_sent_at = Some(ClockStart)]

\* The state Spec is in after two /api/reserve have been served without a
\* failure: both slots of Friday 2025-03-14 are taken.
InitCalendar ==
  /\ rows = <<FirstBooking, SecondBooking>>
  /\ req = [k \in Reqs |-> IdleReq]
  /\ sched = IdleSched
  /\ now = ClockStart
  /\ nextId = 2
  /\ clocks = 0
  /\ ticks = 0
  /\ faults = 0
  /\ view = IdleView

NextViews ==
  \/ NextCalendar
  \/ \E date \in TimeQueries : Times(date)
  \/ \E body \in CancelBodies : Cancel(body)

\* The calendar and the times of a day read while bookings are canceled.
SpecCalendar == InitCalendar /\ [][NextViews]_vars

\* The 15:00 booking of Friday 2025-03-14 made by another customer's
\* earlier request.
OtherBooking == [SecondBooking EXCEPT !.id = BulkId(1)]

\* The state Spec is in when both slots of Friday 2025-03-14 are booked,
\* the 13:00 one by the first body of ReserveBodies.
InitFullDay ==
  /\ rows = <<FirstBooking, OtherBooking>>
  /\ req = [k \in Reqs |-> IdleReq]
  /\ sched = IdleSched
  /\ now = ClockStart
  /\ nextId = 1
  /\ clocks = 0
  /\ ticks = 0
  /\ faults = 0
  /\ view = IdleView

\* The HTTP routes on a day that is full.
SpecFullDay == InitFullDay /\ [][NextHttp]_vars

D_THU == <<"2", "0", "2", "5", "-", "0", "3", "-", "1", "3">>

\* A booking for the day of ClockStart, made the day before.
TodayBooking ==
  [NewRow(BulkId(2), Some(ClockStart - HoursPerDay), D_THU, T1500, N_LEE, P_LEE, W_LEE)
     EXCEPT !.notify_confirm_at = Some(ClockStart - HoursPerDay),
            !.email_sent_at = Some(ClockStart - HoursPerDay)]

LiveTable == <<FirstBooking, OtherBooking, TodayBooking>>

\* The state Spec is in at noon of Thursday 2025-03-13 with both slots of
\* the Friday and one slot of the Thursday booked, no reminder sent yet.
InitLive ==
  /\ rows = LiveTable
  /\ req = [k \in Reqs |-> IdleReq]
  /\ sched = IdleSched
  /\ now = ClockStart
  /\ nextId = 1
  /\ clocks = 0
  /\ ticks = 0
  /\ faults = 0
  /\ view = IdleView

\* The cron trigger firing throughout one day, and the cancels.
NextLive ==
  \/ SchedTick
  \/ SchedSelect
  \/ SchedNotify
  \/ SchedCatch
  \/ SchedEnd
  \/ \E body \in CancelBodies : Cancel(body)

\* The trigger fires again whenever no tick is running (the cron schedule),
\* and the runtime runs a started tick to its end (ctx.waitUntil, line
\* 193).  The provider and the store fail MaxFaults times at most.
LiveFairness ==
  /\ WF_vars(SchedTick)
  /\ WF_vars(SchedSelect)
  /\ WF_vars(SchedNotify)
  /\ WF_vars(SchedCatch)
  /\ WF_vars(SchedEnd)

SpecLive == InitLive /\ [][NextLive]_vars /\ LiveFairness
(* ------------------------------------------------------------------ *)
(* Vocabulary of the properties                                       *)
(* ------------------------------------------------------------------ *)

RowIds(table) == {table[i].id : i \in 1..Len(table)}

\* The row of `table` with the given id (ids are unique).
RowIn(table, id) == table[CHOOSE i \in 1..Len(table) : table[i].id = id]

\* The INSERT of the invocation went through.
Inserted(r) == r.pc # "idle" /\ r.id \in RowIds(rows)

\* The status of the invocation's response, 0 while there is none.
StatusOf(r) == IF r.resp = NULL THEN 0 ELSE r.resp[1].status

SameSlot(a, b) == a.date = b.date /\ a.time = b.time

\* Two invocations of /api/reserve in flight together for one slot.
Concurrent(k, j) ==
  k # j /\ req[k].pc # "idle" /\ req[j].pc # "idle" /\ SameSlot(req[k], req[j])

HoldsBooking(r) == r.id \in RowIds(rows) /\ RowIn(rows, r.id).status = "booked"

(* ------------------------------------------------------------------ *)
(* C1                                                                 *)
(* ------------------------------------------------------------------ *)

\* C1: in every reachable state of the table, whatever reserve, cancel,
\* notification bookkeeping and scheduler steps led to it, no two rows
\* with status 'booked' have the same (date, time).
C1_OneBookedPerSlot ==
  \A i, j \in 1..Len(rows) :
    (i # j /\ rows[i].status = "booked" /\ rows[j].status = "booked")
      => ~SameSlot(rows[i], rows[j])

\* A reserve for a slot that is booked has just been refused by the store.
C1_Witness ==
  \E k \in Reqs :
    /\ req[k].pc = "done"
    /\ req[k].e = Some(MSG_UNIQUE)
    /\ \E i \in 1..Len(rows) : rows[i].status = "booked" /\ SameSlot(rows[i], req[k])

(* ------------------------------------------------------------------ *)
(* C2                                                                 *)
(* ------------------------------------------------------------------ *)

\* C2 as stated, with a store and providers that have not failed: of two
\* concurrent valid reserves for one (date, time), once both are answered,
\* one has 200 with its id and the other has 409.
C2_ExactlyOneSucceeds ==
  \A k, j \in Reqs :
    (faults = 0 /\ Concurrent(k, j) /\ req[k].pc = "done" /\ req[j].pc = "done")
      => \/ (StatusOf(req[k]) = 200 /\ StatusOf(req[j]) = 409)
         \/ (StatusOf(req[k]) = 409 /\ StatusOf(req[j]) = 200)

\* C2, amended: of two concurrent valid reserves for one (date, time), at
\* most one holds a booked row at any time, so that both can succeed only
\* when the first one's booking is canceled in between; a reserve that the
\* uniqueness constraint refuses is answered 409 'already booked', never
\* 500, and has no row; 409 is answered to no other reserve; and a 500 is
\* answered only after a failure of the store that is not the constraint.
C2_LoserGets409 ==
  \A k, j \in Reqs :
    Concurrent(k, j) =>
      /\ ~(HoldsBooking(req[k]) /\ HoldsBooking(req[j]))
      /\ (StatusOf(req[k]) = 200 /\ StatusOf(req[j]) = 200)
           => \/ RowIn(rows, req[k].id).status = "canceled"
              \/ RowIn(rows, req[j].id).status = "canceled"
      /\ req[k].e = Some(MSG_UNIQUE)
           => /\ req[k].resp = Some(Json(409, "already booked", NULL, NULL))
              /\ ~Inserted(req[k])
      /\ StatusOf(req[k]) = 409 => req[k].e = Some(MSG_UNIQUE)
      /\ StatusOf(req[k]) = 500 => req[k].e = Some(MSG_STORE)

\* Both are answered: the one 200 with its id, the other 409.
C2_Witness ==
  \E k, j \in Reqs :
    /\ Concurrent(k, j)
    /\ req[k].resp = Some(Json(200, "", Some(req[k].id), NULL))
    /\ req[j].resp = Some(Json(409, "already booked", NULL, NULL))
    /\ HoldsBooking(req[k])

(* ------------------------------------------------------------------ *)
(* C3                                                                 *)
(* ------------------------------------------------------------------ *)

\* C3 as stated: every reserve whose INSERT went through is answered 200
\* with the new id, whatever became of the two notifications.
C3_SuccessOnceInserted ==
  \A k \in Reqs :
    (req[k].pc = "done" /\ Inserted(req[k]))
      => req[k].resp = Some(Json(200, "", Some(req[k].id), NULL))

(* ------------------------------------------------------------------ *)
(* C4                                                                 *)
(* ------------------------------------------------------------------ *)

\* C4 as stated: in every reserve whose INSERT went through, the
\* administrator email is attempted, whether the confirmation was sent or
\* failed.
C4_EmailAlwaysAttempted ==
  \A k \in Reqs :
    (req[k].pc = "done" /\ Inserted(req[k])) => "email" \in req[k].tried

(* ------------------------------------------------------------------ *)
(* C5                                                                 *)
(* ------------------------------------------------------------------ *)

\* The six checks a reserve has to pass.
Admissible(date, time, name, phone, password) ==
  /\ isYMD(date)
  /\ isHM(time)
  /\ Len(name) >= MinName
  /\ Len(phone) >= MinPhone
  /\ Len(password) >= MinPass
  /\ Includes(allowedTimesForDate(date), time)

\* C5: a reserve that fails a validation check (date syntax, time syntax,
\* name shorter than 2, fewer than 9 phone digits, password shorter than
\* 4, time not among the date's slots) is answered 400; it never reaches
\* the store and no notification is attempted for it: every row of the
\* table and every invocation past validation passes all six checks.
C5_InvalidNeverAdmitted ==
  /\ \A body \in ReserveBodies :
       ~Admissible(body.date, body.time, Trim(body.name),
                   digitsOnly(body.phone), Trim(body.password))
         => /\ BodyError(body) # ""
            /\ RejectResponse(body).status = 400
  /\ \A i \in 1..Len(rows) :
       Admissible(rows[i].date, rows[i].time, rows[i].name, rows[i].phone,
                  rows[i].password)
  /\ \A k \in Reqs :
       req[k].pc # "idle"
         => Admissible(req[k].date, req[k].time, req[k].name, req[k].phone,
                       req[k].password)

\* A customer with a booking and a notification under way, whose reserve
\* for a day without slots is rejected: no row has that day.
C5_Witness ==
  \E body \in ReserveBodies :
    /\ BodyError(body) = "time not allowed for that date"
    /\ \E i \in 1..Len(rows) : rows[i].name = Trim(body.name)
    /\ \A i \in 1..Len(rows) : rows[i].date # body.date
    /\ \E k \in Reqs : req[k].pc = "email"

(* ------------------------------------------------------------------ *)
(* C6                                                                 *)
(* ------------------------------------------------------------------ *)

\* The four fields of the body, normalised, are those of a booked row.
FullMatch(row, body) ==
  /\ row.id = Trim(body.id)
  /\ row.name = Trim(body.name)
  /\ row.phone = digitsOnly(body.phone)
  /\ row.password = Trim(body.password)
  /\ row.status = "booked"

HasEmptyField(body) ==
  \/ Trim(body.id) = <<>>
  \/ Trim(body.name) = <<>>
  \/ digitsOnly(body.phone) = <<>>
  \/ Trim(body.password) = <<>>

\* C6 as stated: a cancel whose four fields do not all match a booked row
\* is answered 404 and changes no row.
C6_NotFoundOtherwise ==
  \A body \in CancelBodies :
    (~\E i \in 1..Len(rows) : FullMatch(rows[i], body))
      => /\ CancelResponse(rows, body, TRUE).status = 404
         /\ CancelEffect(rows, body, TRUE) = rows

\* C6, amended: a cancel turns a row from 'booked' to 'canceled' exactly
\* when id, name, phone digits and password all match that row, the row is
\* 'booked' and the store's UPDATE goes through, and is then answered 200;
\* in every other case every row stays as it is, and the answer is 400
\* when a field is empty after normalisation, 500 when the store failed,
\* and 404 otherwise (a field wrong, an unknown id, already canceled).
C6_CancelOnlyOnFullMatch ==
  \A body \in CancelBodies, ok \in BOOLEAN :
    LET hits  == {i \in 1..Len(rows) : FullMatch(rows[i], body)}
        after == CancelEffect(rows, body, ok)
    IN  /\ Len(after) = Len(rows)
        /\ \A i \in 1..Len(rows) :
             after[i] = IF i \in hits /\ ok
                        THEN [rows[i] EXCEPT !.status = "canceled"]
                        ELSE rows[i]
        /\ CancelResponse(rows, body, ok).status =
             IF HasEmptyField(body) THEN 400
             ELSE IF ~ok THEN 500
             ELSE IF hits = {} THEN 404
             ELSE 200

\* A row has been canceled, and a body with its four fields is tried again.
C6_Witness ==
  \E i \in 1..Len(rows), body \in CancelBodies :
    /\ rows[i].status = "canceled"
    /\ FullMatch([rows[i] EXCEPT !.status = "booked"], body)
    /\ CancelResponse(rows, body, TRUE).status = 404

(* ------------------------------------------------------------------ *)
(* C7                                                                 *)
(* ------------------------------------------------------------------ *)

\* The three fields of the query, normalised, are those of the row.
TripleMatch(row, q) ==
  /\ row.name = Trim(q.name)
  /\ row.phone = digitsOnly(q.phone)
  /\ row.password = Trim(q.password)

Listed(items, row) == \E n \in 1..Len(items) : items[n].id = row.id

Shown(items, row) ==
  \E n \in 1..Len(items) : items[n].id = row.id /\ items[n].status = row.status

\* The other rows of the same customer created no earlier than row i.
NewerOrTied(i) ==
  {j \in 1..Len(rows) :
     /\ j # i
     /\ rows[j].name = rows[i].name
     /\ rows[j].phone = rows[i].phone
     /\ rows[j].password = rows[i].password
     /\ rows[j].created_at[1] >= rows[i].created_at[1]}

\* C7 as stated: every row is in the list of a lookup with its three
\* fields, with its current status ('booked' once reserved, 'canceled'
\* once canceled), and in no list of a lookup with a field wrong.
C7_RoundTrip ==
  \A q \in MyQueries, tieFirst \in BOOLEAN :
    LET items == MyResponse(rows, q, TRUE, tieFirst).items
    IN  \A i \in 1..Len(rows) :
          IF TripleMatch(rows[i], q) THEN Shown(items, rows[i])
          ELSE ~Listed(items, rows[i])

\* C7, amended: a row is in the list of a lookup with its three fields,
\* with its current status ('booked' once reserved, 'canceled' once
\* canceled), provided fewer than 20 other rows of the same three fields
\* were created at the same time or later; a row that is listed is listed
\* with its current status; and a row is in no list of a lookup with a
\* field wrong.
C7_RoundTripWithinLimit ==
  \A q \in MyQueries, tieFirst \in BOOLEAN :
    LET items == MyResponse(rows, q, TRUE, tieFirst).items
    IN  \A i \in 1..Len(rows) :
          /\ (TripleMatch(rows[i], q) /\ Cardinality(NewerOrTied(i)) < MyLimit)
               => Shown(items, rows[i])
          /\ Listed(items, rows[i]) => Shown(items, rows[i])
          /\ ~TripleMatch(rows[i], q) => ~Listed(items, rows[i])

\* A booking made and canceled is listed as 'canceled' for its customer,
\* while the oldest booking of the customer with the long history is not
\* in that customer's list.
C7_Witness ==
  /\ IdStr(2) \in RowIds(rows)
  /\ RowIn(rows, IdStr(2)).status = "canceled"
  /\ RowIn(rows, IdStr(2)).name = N_LEE
  /\ Shown(MyResponse(rows, Creds(N_LEE, P_LEE, W_LEE), TRUE, TRUE).items,
           RowIn(rows, IdStr(2)))
  /\ ~Listed(MyResponse(rows, Creds(N_KIM, P_KIM, W_KIM), TRUE, TRUE).items,
             RowIn(rows, IdStr(1)))

(* ------------------------------------------------------------------ *)
(* C8                                                                 *)
(* ------------------------------------------------------------------ *)

Kinds == {"D1", "D0"}

TargetDate(kind) == IF kind = "D1" THEN TomorrowOf(now) ELSE TodayOf(now)

\* The rows of the current batch that are being or still to be attempted
\* have no timestamp of the batch's kind; and a tick that starts now
\* selects a row booked on the target date exactly when its timestamp of
\* that kind is absent.
SelectedIffUnmarked ==
  /\ sched.pc \in {"send", "catch"}
       => \A j \in sched.i..Len(sched.batch) :
            /\ sched.batch[j].id \in RowIds(rows)
            /\ RowIn(rows, sched.batch[j].id)[MarkCol(sched.kind)] = NULL
  /\ \A kind \in Kinds, i \in 1..Len(rows) :
       (rows[i].status = "booked" /\ rows[i].date = TargetDate(kind))
         => ((\E n \in 1..Len(BatchSelect(rows, TargetDate(kind), kind)) :
                BatchSelect(rows, TargetDate(kind), kind)[n].id = rows[i].id)
             <=> rows[i][MarkCol(kind)] = NULL)

\* A step that records an error on the row being attempted leaves the
\* row's timestamp absent, and a step that sets a timestamp of a kind is a
\* step of the batch of that kind on a row whose timestamp was absent.
FailedStaysUnmarked ==
  /\ sched.pc \in {"send", "catch"}
       => LET id == sched.batch[sched.i].id
          IN  RowIn(rows', id).notify_last_error # NULL
                => RowIn(rows', id)[MarkCol(sched.kind)] = NULL
  /\ \A kind \in Kinds, i \in 1..Len(rows) :
       rows'[i][MarkCol(kind)] # rows[i][MarkCol(kind)]
         => /\ rows[i][MarkCol(kind)] = NULL
            /\ sched.pc = "send"
            /\ sched.kind = kind
            /\ sched.batch[sched.i].id = rows[i].id

C9_FailureContained == ~(sched.pc = "thrown" /\ sched.i >= 1)

(* ------------------------------------------------------------------ *)
(* C10                                                                *)
(* ------------------------------------------------------------------ *)

StatusesKnown == \A i \in 1..Len(rows) : rows[i].status \in {"booked", "canceled"}

\* Every row stays where it is, and a status changes only from 'booked' to
\* 'canceled'.
OnlyBookedToCanceled ==
  /\ Len(rows') >= Len(rows)
  /\ \A i \in 1..Len(rows) :
       /\ rows'[i].id = rows[i].id
       /\ rows'[i].status # rows[i].status
            => (rows[i].status = "booked" /\ rows'[i].status = "canceled")

\* C10: 'booked' and 'canceled' are the only statuses a row ever has, the
\* only change of status is from 'booked' to 'canceled', and no step
\* removes a row from the table.
C10_StatusLifecycle == [] StatusesKnown /\ [][OnlyBookedToCanceled]_vars

\* The first booking is canceled, and its slot is booked again by a new
\* row while the canceled row stays.
C10_Witness ==
  /\ Len(rows) = 2
  /\ rows[1].status = "canceled"
  /\ rows[2].status = "booked"
  /\ SameSlot(rows[1], rows[2])


(* ------------------------------------------------------------------ *)
(* C11                                                                *)
(* ------------------------------------------------------------------ *)

\* The day of the week of a day number: 1970-01-01 was a Thursday.
Weekday(z) == (z + 4) % 7

\* The slots the schedule gives a day of the week.
SlotsOfWeekday(dow) ==
  IF dow = 0 THEN <<>>
  ELSE IF dow = 6 THEN <<T1400, T1600>>
  ELSE <<T1300, T1500>>

\* C11: the slots offered for a date depend on its day of the week alone:
\* none on a Sunday, 14:00 then 16:00 on a Saturday, 13:00 then 15:00 from
\* Monday to Friday.  Checked on every date a calendar grid walks over and
\* on the dates of the /api/times queries.
C11_SlotsByWeekday ==
  /\ (view.pc = "cells" /\ view.i >= 1)
       => /\ view.allowed = SlotsOfWeekday(Weekday(view.start + view.i - 1))
          /\ view.allowed = allowedTimesForDate(view.cells[view.i].date)
  /\ allowedTimesForDate(D_FRI) = <<T1300, T1500>>
  /\ allowedTimesForDate(D_SAT) = <<T1400, T1600>>
  /\ allowedTimesForDate(D_SUN) = <<>>

\* The loop of the calendar of February 2024 has just passed Saturday the
\* 2024-03-02 (a date after a leap day), which has the Saturday slots.
C11_Witness ==
  /\ view.pc = "cells"
  /\ view.i >= 1
  /\ view.cells[view.i].date = <<"2", "0", "2", "4", "-", "0", "3", "-", "0", "2">>
  /\ view.allowed = <<T1400, T1600>>

(* ------------------------------------------------------------------ *)
(* C12                                                                *)
(* ------------------------------------------------------------------ *)

Range(seq) == {seq[i] : i \in 1..Len(seq)}

\* The times of the rows of a date whose status is 'booked'.
BookedTimes(table, date) ==
  {table[i].time : i \in {j \in 1..Len(table) :
                            table[j].date = date /\ table[j].status = "booked"}}

\* C12: for every date and every state of the table, the answer of
\* /api/times has for `times` the slots of the date, for `closed` the
\* times of the rows of that date whose status is 'booked', and for
\* `available` the slots that are not closed, in the order of the slots;
\* when no row of the date is booked, `available` equals `times` and
\* `closed` is empty.  (A text that is no YYYY-MM-DD is answered 400; the
\* answer meant is the one given when the SELECT succeeds.)
C12_TimesReflectLedger ==
  \A date \in TimeQueries :
    LET r      == TimesResponse(rows, date, TRUE)
        booked == BookedTimes(rows, date)
        free(t) == t \notin booked
    IN  IF isYMD(date)
        THEN /\ r.status = 200
             /\ r.date = date
             /\ r.times = allowedTimesForDate(date)
             /\ Range(r.closed) = booked
             /\ r.available = SelectSeq(r.times, free)
             /\ booked = {} => (r.available = r.times /\ r.closed = <<>>)
        ELSE r.status = 400

\* Friday 2025-03-14 has a canceled row at 13:00 and a booked row at
\* 15:00: 15:00 alone is closed and 13:00 alone is available.
C12_Witness ==
  /\ \E i \in 1..Len(rows) :
       rows[i].date = D_FRI /\ rows[i].time = T1300 /\ rows[i].status = "canceled"
  /\ TimesResponse(rows, D_FRI, TRUE).closed = <<T1500>>
  /\ TimesResponse(rows, D_FRI, TRUE).available = <<T1300>>

(* ------------------------------------------------------------------ *)
(* C13                                                                *)
(* ------------------------------------------------------------------ *)

\* The calendar has been built and is about to be sent.
CalendarBuilt ==
  /\ view.pc = "done"
  /\ view.resp[1].status = 200

\* The grid has 42 cells of consecutive dates from a Sunday on, the cells
\* marked 0 are one run that starts on the first of a month and ends on
\* the last day of that month, the cells before it are marked -1 and the
\* cells after it +1.
GridOfOneMonth(dates) ==
  LET zeros == {i \in 1..Len(dates) : dates[i].cm = 0}
  IN  /\ Len(dates) = GridSize
      /\ isYMD(dates[1].date)
      /\ Weekday(DayNumber(dates[1].date)) = 0
      /\ \A i \in 1..(Len(dates) - 1) :
           dates[i + 1].date = FormatYMD(DayNumber(dates[i].date) + 1)
      /\ zeros # {}
      /\ \E a, b \in zeros :
           /\ zeros = a..b
           /\ DayOf(dates[a].date) = 1
           /\ b < Len(dates)
           /\ DayOf(dates[b + 1].date) = 1
           /\ \A i \in 1..Len(dates) :
                /\ i < a => dates[i].cm = -1
                /\ i > b => dates[i].cm = 1

\* C13: for every query that /api/calendar accepts, the grid has exactly
\* 42 cells of consecutive dates, its first cell is a Sunday, and the cells
\* marked 0 are exactly one contiguous run, the days of the month asked
\* for, with -1 before the run and +1 after it.
C13_GridOfMonth ==
  CalendarBuilt
    => /\ GridOfOneMonth(view.resp[1].body[1].dates)
       /\ \A i \in 1..GridSize :
            LET cell == view.resp[1].body[1].dates[i]
            IN  cell.cm = 0 => MonthOf(cell.date) * Tenths = view.mm

\* The same for the queries whose month is a whole number.
GridOfWholeMonth ==
  (CalendarBuilt /\ view.mm % Tenths = 0)
    => /\ GridOfOneMonth(view.resp[1].body[1].dates)
       /\ \A i \in 1..GridSize :
            LET cell == view.resp[1].body[1].dates[i]
            IN  cell.cm = 0 <=> MonthOf(cell.date) * Tenths = view.mm

(* ------------------------------------------------------------------ *)
(* C14                                                                *)
(* ------------------------------------------------------------------ *)

\* The INSERT of the invocation threw: the exception is kept in `e`, and
\* no channel has been tried (an exception of a later statement is kept
\* in `e` as well, but after a channel was tried).
InsertThrew(r) == r.pc = "done" /\ r.e # NULL /\ r.tried = {}

\* C14: a reserve whose INSERT is refused for a uniqueness or constraint
\* violation is answered 409 'already booked'; a reserve whose INSERT
\* fails for another reason is answered 500 with the store's message as
\* detail; in both cases the table has no row of the request and no
\* notification is attempted.  No other reserve is answered 409 or
\* 'db error'.
C14_InsertFailureMapped ==
  \A k \in Reqs :
    LET r == req[k]
    IN  /\ InsertThrew(r)
          => /\ r.e[1] = MSG_UNIQUE
                  => r.resp = Some(Json(409, "already booked", NULL, NULL))
             /\ r.e[1] # MSG_UNIQUE
                  => r.resp = Some(Json(500, "db error", NULL, Some(r.e[1])))
             /\ r.id \notin RowIds(rows)
        /\ (r.resp # NULL /\ r.resp[1].error \in {"already booked", "db error"})
          => InsertThrew(r)
        /\ (r.pc # "idle" /\ r.id \notin RowIds(rows))
          => (r.pc = "done" /\ r.tried = {})

\* An INSERT has failed for a reason of the store's own: answered 500 with
\* the message, no row, no channel tried.
C14_Witness ==
  \E k \in Reqs :
    /\ req[k].resp = Some(Json(500, "db error", NULL, Some(MSG_STORE)))
    /\ req[k].id \notin RowIds(rows)
    /\ req[k].tried = {}

(* ------------------------------------------------------------------ *)
(* C15                                                                *)
(* ------------------------------------------------------------------ *)

\* No channel is tried before the row is in the table.
RowBeforeChannels ==
  \A k \in Reqs : req[k].tried # {} => Inserted(req[k])

\* The email is tried only when the confirmation has been tried and its
\* bookkeeping is over.
ConfirmBeforeEmail ==
  \A k \in Reqs :
    "email" \in req[k].tried
      => ("confirm" \in req[k].tried /\ req[k].pc \notin {"confirm", "confirm_catch"})

\* The response of an admission is there only when both channels were
\* tried and their bookkeeping is over.
ChannelsBeforeResponse ==
  \A k \in Reqs :
    (req[k].resp # NULL /\ Inserted(req[k]))
      => (req[k].tried = Channels /\ req[k].pc = "done")

\* C15 as stated: within one admission no channel is tried before the row
\* exists, the confirmation and its bookkeeping are over before the email
\* is tried, and both channels are over before the response is returned.
C15_StepsOrdered ==
  RowBeforeChannels /\ ConfirmBeforeEmail /\ ChannelsBeforeResponse

\* What holds of the order: the first two parts, and the third for the
\* response 200.
OrderUpToSuccess ==
  /\ RowBeforeChannels
  /\ ConfirmBeforeEmail
  /\ \A k \in Reqs :
       StatusOf(req[k]) = 200 => (req[k].tried = Channels /\ req[k].pc = "done")

(* ------------------------------------------------------------------ *)
(* C16                                                                *)
(* ------------------------------------------------------------------ *)

\* What a reserve for the slot of `row` inserts.
RebookRow(row) ==
  NewRow(IdStr(nextId + 1), Some(now), row.date, row.time, N_LEE, P_LEE, W_LEE)

ReminderColumns == {"notify_d1_at", "notify_d0_at"}

\* A step that sets a reminder timestamp of a row (the reminder has been
\* sent, then) finds the row 'booked'.
ReminderOnlyIfBooked ==
  \A i \in 1..Len(rows) : \A col \in ReminderColumns :
    (rows[i][col] = NULL /\ rows'[i][col] # NULL) => rows[i].status = "booked"

\* C17 as stated: however a tick and the cancels interleave, a reminder
\* is sent, and its timestamp set, only for a row that is 'booked' when the
\* reminder is sent: a row canceled after the batch was selected gets
\* neither.
C17_NoReminderAfterCancel == [][ReminderOnlyIfBooked]_vars

(* ------------------------------------------------------------------ *)
(* C18                                                                *)
(* ------------------------------------------------------------------ *)

StampColumn(chan) == IF chan = "confirm" THEN "notify_confirm_at" ELSE "email_sent_at"

\* The timestamp `col` of the row `id` is written in this step.
Stamped(id, col) ==
  \E i \in 1..Len(rows) :
    rows[i].id = id /\ rows'[i][col] # NULL /\ rows'[i][col] # rows[i][col]

\* This step is the one of a reserve at the channel, for the row `id`, in
\* which nothing failed: the provider's call returned and the UPDATE of
\* the try block went through.
ChannelDelivered(id, chan) ==
  \E k \in Reqs :
    /\ req[k].id = id
    /\ req[k].pc = chan
    /\ req'[k] = AfterChannel([req[k] EXCEPT !.tried = @ \cup {chan}], chan)
    /\ faults' = faults

\* This step is the one of the tick at the row `id` of its batch, in which
\* nothing failed.
ReminderDelivered(id, kind) ==
  /\ sched.pc = "send"
  /\ sched.kind = kind
  /\ sched.batch[sched.i].id = id
  /\ sched' = SchedContinue(sched)
  /\ faults' = faults

StampOnlyOnDelivery ==
  \A id \in RowIds(rows) :
    /\ \A chan \in Channels : Stamped(id, StampColumn(chan)) => ChannelDelivered(id, chan)
    /\ \A kind \in {"D1", "D0"} : Stamped(id, MarkCol(kind)) => ReminderDelivered(id, kind)

StampColumnsAll == {"notify_confirm_at", "email_sent_at", "notify_d1_at", "notify_d0_at"}

StampNeverCleared ==
  \A i \in 1..Len(rows) : \A col \in StampColumnsAll :
    rows[i][col] # NULL => rows'[i][col] # NULL

\* C18: a timestamp of the confirmation, the email, the D-1 or the D-day
\* reminder of a row is written only in a step in which the send on that
\* channel for that row returned without an error, and no step sets a
\* timestamp back to absent.
C18_StampWitnessesDelivery == [][StampOnlyOnDelivery /\ StampNeverCleared]_vars

\* A row has all four timestamps, the two reminders' written by ticks.
C18_Witness ==
  \E i \in 1..Len(rows) :
    /\ \A col \in StampColumnsAll : rows[i][col] # NULL
    /\ ticks = 2

(* ------------------------------------------------------------------ *)
(* C19                                                                *)
(* ------------------------------------------------------------------ *)

D_FEB30 == <<"2", "0", "2", "5", "-", "0", "2", "-", "3", "0">>
D_FEB31 == <<"2", "0", "2", "5", "-", "0", "2", "-", "3", "1">>

\* Date texts of a reserve: three days, and three texts of the form
\* YYYY-MM-DD that name no day.
DateTexts == {D_FRI, D_SAT, D_SUN, D_M13, D_FEB30, D_FEB31}

SlotTexts == {T1300, T1400, T1500, T1600}

\* The number of rows of the date whose status is 'booked'.
BookedOn(table, date) ==
  Cardinality({i \in 1..Len(table) : table[i].date = date /\ table[i].status = "booked"})

MaxPerDay == Len(SlotsOfWeekday(1))

\* C19: the time of every row of the table is one of the slots of the
\* row's date; hence no row is on a Sunday, and no date has more than two
\* rows with status 'booked'.  The same for every reserve that passes
\* validation, whatever its date text.
C19_RowsWithinSlots ==
  /\ \A i \in 1..Len(rows) :
       /\ Includes(allowedTimesForDate(rows[i].date), rows[i].time)
       /\ ValidDate(rows[i].date)
            => /\ Weekday(DayNumber(rows[i].date)) # 0
               /\ Includes(SlotsOfWeekday(Weekday(DayNumber(rows[i].date))), rows[i].time)
       /\ BookedOn(rows, rows[i].date) <= MaxPerDay
  /\ \A d \in DateTexts, t \in SlotTexts :
       BodyError(Body(d, t, N_KIM, P_KIM, W_KIM)) = ""
         => /\ Includes(allowedTimesForDate(d), t)
            /\ getUTCDay(d) # 0

\* Both slots of the Friday are booked, and a reserve for one of them has
\* just been refused.
C19_Witness ==
  /\ BookedOn(rows, D_FRI) = MaxPerDay
  /\ \E k \in Reqs :
       /\ req[k].date = D_FRI
       /\ req[k].resp = Some(Json(409, "already booked", NULL, NULL))

(* ------------------------------------------------------------------ *)
(* C20                                                                *)
(* ------------------------------------------------------------------ *)

\* The reminder column that is due for a row on the day of ClockStart:
\* D-1 for a row of the next day, D-day for a row of the day itself.
DueColumn(row) ==
  IF row.date = TomorrowOf(ClockStart) THEN MarkCol("D1") ELSE MarkCol("D0")

\* The row is no longer 'booked', or its due reminder has its timestamp.
Reminded(i) == rows[i].status # "booked" \/ rows[i][DueColumn(rows[i])] # NULL

\* C20: while the trigger keeps firing on one day and the provider and
\* the store fail finitely often, every row for the next day that stays
\* 'booked' gets its D-1 timestamp, and every row for the day itself its
\* D-day timestamp, whatever failed for the other rows or in earlier
\* ticks.
C20_RemindersEventuallySent ==
  \A i \in 1..Len(LiveTable) : <>Reminded(i)

\* All failures have happened, and every row is still booked and has its
\* due timestamp.
C20_Witness ==
  /\ faults = MaxFaults
  /\ \A i \in 1..Len(rows) :
       rows[i].status = "booked" /\ rows[i][DueColumn(rows[i])] # NULL
=============================================================================
